---------------------------- MODULE Spec2Model ----------------------------
(***************************************************************************)
(* Model of movie-agent-demo's SecureConfigManager (config_manager.py):    *)
(* the master key file, the encrypted config file, each manager            *)
(* instance's cached cipher, and the calls is_configured, save_config,     *)
(* load_config, update_config and delete_config; and of the pure function  *)
(* validate_setup_data.                                                    *)
(***************************************************************************)
EXTENDS Integers, Sequences, FiniteSets, TLC

(***************************************************************************)
(* Bounds.                                                                 *)
(***************************************************************************)
\* Number of distinct keys Fernet.generate_key() can hand out in one run.
MaxKeys == 2

\* Manager instances constructed on the same two paths.
Insts == {"A", "B"}

(***************************************************************************)
(* Python values of a configuration mapping and their JSON form.           *)
(***************************************************************************)
StrV(n) == [t |-> "str", v |-> n]
IntV(n) == [t |-> "int", v |-> n]
BoolV(b) == [t |-> "bool", v |-> IF b THEN 1 ELSE 0]
NoneV == [t |-> "none", v |-> 0]

\* The fields of the configuration mapping used here, in a fixed order, and
\* the values each may take.
KeyOrder == <<"faiss_index_path", "memory_max_turns">>
ConfigKeys == {KeyOrder[n] : n \in 1..Len(KeyOrder)}
FieldVals(k) ==
  IF k = "faiss_index_path" THEN {StrV(1), NoneV} ELSE {IntV(5)}

\* Every configuration mapping over these fields (a dict: no order).
Mappings ==
  UNION {{m \in [S -> UNION {FieldVals(k) : k \in ConfigKeys}] :
            \A k \in S : m[k] \in FieldVals(k)} : S \in SUBSET ConfigKeys}

\* "No mapping": the argument of a call that takes none, the value of a call
\* that returns none.
NoMap == [x \in {"-"} |-> NoneV]

\* json.dumps of one value, json.loads of one value.
JsonEnc(v) ==
  CASE v.t = "str" -> [j |-> "string", v |-> v.v]
    [] v.t = "int" -> [j |-> "number", v |-> v.v]
    [] v.t = "bool" -> [j |-> IF v.v = 1 THEN "true" ELSE "false", v |-> 0]
    [] OTHER -> [j |-> "null", v |-> 0]

JsonDec(x) ==
  CASE x.j = "string" -> StrV(x.v)
    [] x.j = "number" -> IntV(x.v)
    [] x.j = "true" -> BoolV(TRUE)
    [] x.j = "false" -> BoolV(FALSE)
    [] OTHER -> NoneV

\* The order in which json.dumps writes the members: the fields above, then
\* the fields of the setup form.
MemberOrder == KeyOrder \o <<"llm_provider", "groq_api_key", "openai_api_key">>

\* json.dumps(config): the object's members, one <<name, value>> per key.
RECURSIVE dumpsFrom(_, _)
dumpsFrom(m, n) ==
  IF n > Len(MemberOrder) THEN <<>>
  ELSE IF MemberOrder[n] \in DOMAIN m
       THEN <<(<<MemberOrder[n], JsonEnc(m[MemberOrder[n]])>>)>>
            \o dumpsFrom(m, n + 1)
       ELSE dumpsFrom(m, n + 1)

json_dumps(m) == dumpsFrom(m, 1)

\* json.loads(text): the dict of the members, a later member winning.
RECURSIVE loadsFrom(_, _)
loadsFrom(text, n) ==
  IF n = 0 THEN <<>>
  ELSE LET rest == loadsFrom(text, n - 1)
           k == text[n][1]
       IN  [x \in (DOMAIN rest) \cup {k} |->
              IF x = k THEN JsonDec(text[n][2]) ELSE rest[x]]

json_loads(text) == loadsFrom(text, Len(text))

\* dict.update: a shallow merge, the updates winning key by key.
dict_update(current, updates) ==
  [k \in (DOMAIN current) \cup (DOMAIN updates) |->
     IF k \in DOMAIN updates THEN updates[k] ELSE current[k]]

(***************************************************************************)
(* Fernet: an authenticated token is readable under the key that made it,  *)
(* and under no other; a token whose bytes changed no longer verifies.     *)
(***************************************************************************)
NoFile == [exists |-> FALSE, k |-> 0, pt |-> <<>>, mac |-> FALSE]

fernet_encrypt(key, pt) == [exists |-> TRUE, k |-> key, pt |-> pt, mac |-> TRUE]

\* (a token read without checking its signature)
fernet_decrypt_unauthenticated(key, tok) == tok.k = key

fernet_decrypt_ok(key, tok) == tok.mac /\ tok.k = key

\* A key no generate_key() of this installation returns (somebody else's).
ForeignKey == MaxKeys + 1

\* What a key file holds between open(.., 'wb') and the write of the key:
\* no bytes, of which Fernet() makes no cipher.
BadKey == -1

(***************************************************************************)
(* State.                                                                  *)
(***************************************************************************)
VARIABLES
  keyFile,   \* .master_key: 0 when absent, else the key it holds
  cfgFile,   \* config.encrypted: NoFile when absent, else the token it holds
  keyOk,     \* the key file can be opened (permissions, availability)
  cfgOk,     \* the config file can be opened
  cipher,    \* per instance: self._cipher, 0 for None, else the cached key
  nkeys,     \* keys generated so far (generate_key never repeats one)
  last,      \* the last call: who, what, with what, and what it returned
  prev,      \* what is kept of the call before it (NotKept: nothing, ever)
  deleted,   \* a delete_config() has been called on these paths
  data,      \* the setup data handed to validate_setup_data
  verdict,   \* what validate_setup_data returned for it
  frame,     \* the save_config call under way, or the crash that ended it
  web        \* app.py: agent_app, and the answer to the last request

vars ==
  <<keyFile, cfgFile, keyOk, cfgOk, cipher, nkeys, last, prev, deleted, data,
    verdict, frame, web>>

\* Which of the two files exist.
FileState ==
  IF cfgFile.exists
  THEN IF keyFile # 0 THEN "both" ELSE "config only"
  ELSE IF keyFile # 0 THEN "key only" ELSE "neither"

\* The mapping the config file's token was made from, whoever can read it.
StoredMapping ==
  IF cfgFile.exists /\ cfgFile.k # 0 THEN json_loads(cfgFile.pt) ELSE NoMap

\* The config file holds a mapping with a key that config lacks.
DropsKey(config) ==
  /\ StoredMapping # NoMap
  /\ (DOMAIN StoredMapping) \ (DOMAIN config) # {}

\* A call as recorded: op, instance, argument, outcome (kind: "ok", "none"
\* for a returned None, or the exception raised), the mapping returned, flag
\* (is_configured: the boolean returned; save_config: DropsKey when it was
\* called), base (update_config: its local `current` before the merge), and
\* pre, the files that existed when the call was made.
CallRec(op, i, arg, kind, val, flag, base, pre) ==
  [op |-> op, inst |-> i, arg |-> arg, kind |-> kind, val |-> val,
   flag |-> flag, base |-> base, pre |-> pre]

Call(op, i, arg, kind, val, flag, base) ==
  CallRec(op, i, arg, kind, val, flag, base, FileState)

NoCall == CallRec("none", "A", NoMap, "ok", NoMap, FALSE, NoMap, "neither")

NotKept == CallRec("not kept", "A", NoMap, "ok", NoMap, FALSE, NoMap, "neither")

\* What prev keeps of a call: a save_config or update_config as it was (the
\* claims about two calls in a row read these), of any other call nothing.
Kept(call) ==
  IF call.op \in {"save_config", "update_config"}
  THEN [call EXCEPT !.pre = "neither"]
  ELSE NoCall

NoVerdict == [done |-> FALSE, ok |-> FALSE, reason |-> "-"]

\* A save_config(config) call of instance inst between two of its steps: pc
\* is the step it has reached, key the key of its local `cipher`, old the
\* mapping a fresh instance's load_config() returned when the call began
\* (NoMap when it returned none or raised).  pc "idle": no call under way;
\* "crashed": the process died when the call was at step `at`.
Frame(pc, at, i, config, key, old) ==
  [pc |-> pc, at |-> at, inst |-> i, config |-> config, key |-> key,
   old |-> old]

NoFrame == Frame("idle", "-", "A", NoMap, 0, NoMap)

\* agent_app: None, or the agent made from a loaded configuration.
NoAgent == [live |-> FALSE, config |-> NoMap]

\* The module globals when app.py is loaded, no request answered yet.
NoWeb == [agent_app |-> NoAgent, status |-> 0, error |-> "-", saved |-> FALSE]

\* A new installation: no file, fresh instances, no call made yet.
InitManager ==
  /\ keyFile = 0
  /\ cfgFile = NoFile
  /\ keyOk = TRUE
  /\ cfgOk = TRUE
  /\ cipher = [i \in Insts |-> 0]
  /\ nkeys = 0
  /\ last = NoCall
  /\ deleted = FALSE
  /\ frame = NoFrame
  /\ web = NoWeb

Init ==
  /\ InitManager
  /\ prev = NoCall
  /\ data = <<>>
  /\ verdict = NoVerdict

\* The call just made becomes the last call, the last one the one before.
\* Calls are serialized: none is made while a save_config is under way.  What
\* is remembered of a crash lasts until the next call that writes.
Returned(call) ==
  /\ frame.pc \in {"idle", "crashed"}
  /\ prev' = IF prev = NotKept THEN NotKept ELSE Kept(last)
  /\ last' = call
  /\ deleted' = (deleted \/ call.op = "delete_config")
  /\ frame' = IF call.op \in {"save_config", "update_config", "delete_config"}
               THEN NoFrame
               ELSE frame
  /\ UNCHANGED <<data, verdict, web>>

(***************************************************************************)
(* SecureConfigManager.  The operators below take ci, the instance's       *)
(* self._cipher at that point of the call (0 for None), and give the       *)
(* outcome together with what the call leaves behind.                      *)
(***************************************************************************)
\* (is_configured looking at the config file alone)
is_configured_config_only == cfgFile.exists

\* is_configured(): both files exist.
is_configured == cfgFile.exists /\ keyFile # 0

\* _get_or_create_master_key(): the key read from the key file, or a new key
\* written to it. err: open() raised.
_get_or_create_master_key ==
  IF keyFile # 0
  THEN IF keyOk
       THEN [err |-> FALSE, exc |-> "-", key |-> keyFile, keyFile |-> keyFile,
             nkeys |-> nkeys]
       ELSE [err |-> TRUE, exc |-> "OSError", key |-> 0, keyFile |-> keyFile,
             nkeys |-> nkeys]
  ELSE [err |-> FALSE, exc |-> "-", key |-> nkeys + 1, keyFile |-> nkeys + 1,
        nkeys |-> nkeys + 1]

\* _get_cipher(): the cached cipher, or one made from the master key.
\* Fernet(key) raises ValueError for a key that is not 32 encoded bytes.
_get_cipher(ci) ==
  IF ci # 0
  THEN [err |-> FALSE, exc |-> "-", key |-> ci, keyFile |-> keyFile,
        nkeys |-> nkeys]
  ELSE LET k == _get_or_create_master_key IN
       IF ~k.err /\ k.key = BadKey
       THEN [err |-> TRUE, exc |-> "ValueError", key |-> 0,
             keyFile |-> keyFile, nkeys |-> nkeys]
       ELSE k

\* (save_config merging config into the stored mapping, not replacing it)
save_config_result_merging(ci, config) ==
  LET c == _get_cipher(ci)
      old == IF StoredMapping = NoMap THEN <<>> ELSE StoredMapping
  IN
  IF c.err
  THEN [kind |-> c.exc, keyFile |-> keyFile, cfgFile |-> cfgFile,
        ci |-> ci, nkeys |-> nkeys]
  ELSE IF cfgFile.exists /\ ~cfgOk
  THEN [kind |-> "OSError", keyFile |-> c.keyFile, cfgFile |-> cfgFile,
        ci |-> c.key, nkeys |-> c.nkeys]
  ELSE [kind |-> "ok", keyFile |-> c.keyFile,
        cfgFile |-> fernet_encrypt(c.key, json_dumps(dict_update(old, config))),
        ci |-> c.key, nkeys |-> c.nkeys]

\* save_config(config): what _get_cipher raised, OSError when the config file
\* cannot be opened, else the encrypted JSON replaces the config file.
save_config_result(ci, config) ==
  LET c == _get_cipher(ci) IN
  IF c.err
  THEN [kind |-> c.exc, keyFile |-> keyFile, cfgFile |-> cfgFile,
        ci |-> ci, nkeys |-> nkeys]
  ELSE IF cfgFile.exists /\ ~cfgOk
  THEN [kind |-> "OSError", keyFile |-> c.keyFile, cfgFile |-> cfgFile,
        ci |-> c.key, nkeys |-> c.nkeys]
  ELSE [kind |-> "ok", keyFile |-> c.keyFile,
        cfgFile |-> fernet_encrypt(c.key, json_dumps(config)),
        ci |-> c.key, nkeys |-> c.nkeys]

\* (load_config answering None for whatever raises inside the try)
load_config_result_swallowing(ci) ==
  IF ~is_configured
  THEN [kind |-> "none", val |-> NoMap, ci |-> ci]
  ELSE LET c == _get_cipher(ci) IN
       IF c.err
       THEN [kind |-> "none", val |-> NoMap, ci |-> ci]
       ELSE IF ~cfgOk
       THEN [kind |-> "none", val |-> NoMap, ci |-> c.key]
       ELSE IF ~fernet_decrypt_ok(c.key, cfgFile)
       THEN [kind |-> "none", val |-> NoMap, ci |-> c.key]
       ELSE [kind |-> "ok", val |-> json_loads(cfgFile.pt), ci |-> c.key]

\* load_config(): None when not configured, ValueError for whatever raises
\* inside the try, else the decrypted mapping.
load_config_result(ci) ==
  IF ~is_configured
  THEN [kind |-> "none", val |-> NoMap, ci |-> ci]
  ELSE LET c == _get_cipher(ci) IN
       IF c.err
       THEN [kind |-> "ValueError", val |-> NoMap, ci |-> ci]
       ELSE IF ~cfgOk
       THEN [kind |-> "ValueError", val |-> NoMap, ci |-> c.key]
       ELSE IF ~fernet_decrypt_ok(c.key, cfgFile)
       THEN [kind |-> "ValueError", val |-> NoMap, ci |-> c.key]
       ELSE [kind |-> "ok", val |-> json_loads(cfgFile.pt), ci |-> c.key]

\* update_config(updates): load (None counts as {}), merge, save.
update_config_result(ci, updates) ==
  LET l == load_config_result(ci) IN
  IF l.kind = "ValueError"
  THEN [kind |-> "ValueError", keyFile |-> keyFile, cfgFile |-> cfgFile,
        ci |-> l.ci, nkeys |-> nkeys, base |-> NoMap]
  ELSE LET current == IF l.kind = "ok" THEN l.val ELSE <<>>
           s == save_config_result(l.ci, dict_update(current, updates))
       IN  [kind |-> s.kind, keyFile |-> s.keyFile, cfgFile |-> s.cfgFile,
            ci |-> s.ci, nkeys |-> s.nkeys, base |-> current]

\* __init__: a fresh instance on the same paths (a restart of the process).
Construct(i) ==
  /\ cipher' = [cipher EXCEPT ![i] = 0]
  /\ Returned(Call("construct", i, NoMap, "ok", NoMap, FALSE, NoMap))
  /\ UNCHANGED <<keyFile, cfgFile, keyOk, cfgOk, nkeys>>

IsConfiguredCall(i) ==
  /\ Returned(Call("is_configured", i, NoMap, "ok", NoMap, is_configured,
                   NoMap))
  /\ UNCHANGED <<keyFile, cfgFile, keyOk, cfgOk, cipher, nkeys>>

save_config(i, config) ==
  LET e == save_config_result(cipher[i], config) IN
  /\ e.nkeys <= MaxKeys
  /\ keyFile' = e.keyFile
  /\ cfgFile' = e.cfgFile
  /\ cipher' = [cipher EXCEPT ![i] = e.ci]
  /\ nkeys' = e.nkeys
  /\ Returned(Call("save_config", i, config, e.kind, NoMap,
                   DropsKey(config), NoMap))
  /\ UNCHANGED <<keyOk, cfgOk>>

load_config(i) ==
  LET e == load_config_result(cipher[i]) IN
  /\ cipher' = [cipher EXCEPT ![i] = e.ci]
  /\ Returned(Call("load_config", i, NoMap, e.kind, e.val, FALSE, NoMap))
  /\ UNCHANGED <<keyFile, cfgFile, keyOk, cfgOk, nkeys>>

update_config(i, updates) ==
  LET e == update_config_result(cipher[i], updates) IN
  /\ e.nkeys <= MaxKeys
  /\ keyFile' = e.keyFile
  /\ cfgFile' = e.cfgFile
  /\ cipher' = [cipher EXCEPT ![i] = e.ci]
  /\ nkeys' = e.nkeys
  /\ Returned(Call("update_config", i, updates, e.kind, NoMap, FALSE, e.base))
  /\ UNCHANGED <<keyOk, cfgOk>>

\* (delete_config unlinking the config file only)
delete_config_keeping_key(i) ==
  /\ cfgFile' = NoFile
  /\ cfgOk' = TRUE
  /\ Returned(Call("delete_config", i, NoMap, "ok", NoMap, FALSE, NoMap))
  /\ UNCHANGED <<keyFile, keyOk, cipher, nkeys>>

\* delete_config(): unlink each file that exists. self._cipher is untouched.
delete_config(i) ==
  /\ cfgFile' = NoFile
  /\ keyFile' = 0
  /\ keyOk' = TRUE
  /\ cfgOk' = TRUE
  /\ Returned(Call("delete_config", i, NoMap, "ok", NoMap, FALSE, NoMap))
  /\ UNCHANGED <<cipher, nkeys>>

Next ==
  \E i \in Insts :
    \/ Construct(i)
    \/ IsConfiguredCall(i)
    \/ \E config \in Mappings : save_config(i, config)
    \/ load_config(i)
    \/ \E updates \in Mappings : update_config(i, updates)
    \/ delete_config(i)

Spec == Init /\ [][Next]_vars

(***************************************************************************)
(* The files as something outside the manager leaves them: what the        *)
(* open() and decrypt() calls of load_config and save_config can meet.     *)
(***************************************************************************)
\* A byte of the config file is flipped: the token no longer verifies.
FlipByte ==
  /\ cfgFile.exists /\ cfgFile.mac
  /\ cfgFile' = [cfgFile EXCEPT !.mac = FALSE]
  /\ UNCHANGED <<keyFile, keyOk, cfgOk, cipher, nkeys, last, prev, deleted,
                 data, verdict, frame, web>>

\* The config file is cut short: no token at all.
Truncate ==
  /\ cfgFile.exists /\ cfgFile.k # 0
  /\ cfgFile' = [exists |-> TRUE, k |-> 0, pt |-> <<>>, mac |-> FALSE]
  /\ UNCHANGED <<keyFile, keyOk, cfgOk, cipher, nkeys, last, prev, deleted,
                 data, verdict, frame, web>>

\* The config file is replaced by a token made under somebody else's key.
ForeignEncrypt ==
  /\ cfgFile.exists /\ cfgFile.k \notin {0, ForeignKey}
  /\ cfgFile' = fernet_encrypt(ForeignKey, cfgFile.pt)
  /\ UNCHANGED <<keyFile, keyOk, cfgOk, cipher, nkeys, last, prev, deleted,
                 data, verdict, frame, web>>

\* The config file is removed by hand; the key file stays.
RemoveConfig ==
  /\ cfgFile.exists
  /\ cfgFile' = NoFile
  /\ cfgOk' = TRUE
  /\ UNCHANGED <<keyFile, keyOk, cipher, nkeys, last, prev, deleted, data,
                 verdict, frame, web>>

\* The permissions of an existing file change: open() on it raises or not.
SetKeyAccess(b) ==
  /\ keyFile # 0 /\ keyOk # b
  /\ keyOk' = b
  /\ UNCHANGED <<keyFile, cfgFile, cfgOk, cipher, nkeys, last, prev, deleted,
                 data, verdict, frame, web>>

SetCfgAccess(b) ==
  /\ cfgFile.exists /\ cfgOk # b
  /\ cfgOk' = b
  /\ UNCHANGED <<keyFile, cfgFile, keyOk, cipher, nkeys, last, prev, deleted,
                 data, verdict, frame, web>>

EnvNext ==
  \/ FlipByte
  \/ Truncate
  \/ ForeignEncrypt
  \/ RemoveConfig
  \/ \E b \in BOOLEAN : SetKeyAccess(b)
  \/ \E b \in BOOLEAN : SetCfgAccess(b)

InitEnv ==
  /\ InitManager
  /\ prev = NotKept
  /\ data = <<>>
  /\ verdict = NoVerdict

SpecEnv == InitEnv /\ [][Next \/ EnvNext]_vars

(***************************************************************************)
(* save_config step by step, and the process dying between two steps.  A   *)
(* call whose _get_cipher() raises changes nothing and has no step to die  *)
(* in: it is the save_config action above.                                 *)
(***************************************************************************)
\* The config file right after open(.., 'wb'): it exists and holds no byte.
EmptyFile == [exists |-> TRUE, k |-> 0, pt |-> <<>>, mac |-> FALSE]

\* The first bytes of a token: the ciphertext of the first n members of the
\* JSON text, and not the signature, which comes last.
PartialToken(tok, n) ==
  [exists |-> TRUE, k |-> tok.k, pt |-> SubSeq(tok.pt, 1, n), mac |-> FALSE]

\* Line 67, cipher = self._get_cipher(): the cached cipher, the key read from
\* the key file, or a new key and open(master_key_file, 'wb'); then lines
\* 70-71, which touch no file.
SaveBegin(i, config) ==
  LET r == load_config_result(0)
      old == IF r.kind = "ok" THEN r.val ELSE NoMap
      c == _get_cipher(cipher[i])
  IN
  /\ frame.pc \in {"idle", "crashed"}
  /\ ~c.err
  /\ IF cipher[i] = 0 /\ keyFile = 0
     THEN /\ nkeys + 1 <= MaxKeys
          /\ nkeys' = nkeys + 1
          /\ keyFile' = BadKey
          /\ frame' = Frame("key opened", "-", i, config, nkeys + 1, old)
          /\ UNCHANGED cipher
     ELSE /\ cipher' = [cipher EXCEPT ![i] = c.key]
          /\ frame' = Frame("encrypted", "-", i, config, c.key, old)
          /\ UNCHANGED <<keyFile, nkeys>>
  /\ UNCHANGED <<cfgFile, keyOk, cfgOk, last, prev, deleted, data, verdict,
                 web>>

\* Lines 46-52 and 58: the key is written, the cipher made and cached.
KeyWrite ==
  /\ frame.pc = "key opened"
  /\ keyFile' = frame.key
  /\ cipher' = [cipher EXCEPT ![frame.inst] = frame.key]
  /\ frame' = [frame EXCEPT !.pc = "encrypted"]
  /\ UNCHANGED <<cfgFile, keyOk, cfgOk, nkeys, last, prev, deleted, data,
                 verdict, web>>

\* Line 74, open(self.config_file, 'wb'): the file is created or truncated.
CfgOpen ==
  /\ frame.pc = "encrypted"
  /\ ~cfgFile.exists \/ cfgOk
  /\ cfgFile' = EmptyFile
  /\ frame' = [frame EXCEPT !.pc = "opened"]
  /\ UNCHANGED <<keyFile, keyOk, cfgOk, cipher, nkeys, last, prev, deleted,
                 data, verdict, web>>

\* Line 75, f.write(encrypted), as far as its first bytes.
CfgWritePart(n) ==
  /\ frame.pc = "opened"
  /\ n <= Len(json_dumps(frame.config))
  /\ cfgFile' =
       PartialToken(fernet_encrypt(frame.key, json_dumps(frame.config)), n)
  /\ frame' = [frame EXCEPT !.pc = "partial"]
  /\ UNCHANGED <<keyFile, keyOk, cfgOk, cipher, nkeys, last, prev, deleted,
                 data, verdict, web>>

\* Line 75 to the end of the with block: the whole token is in the file.
CfgClose ==
  /\ frame.pc \in {"opened", "partial"}
  /\ cfgFile' = fernet_encrypt(frame.key, json_dumps(frame.config))
  /\ frame' = [frame EXCEPT !.pc = "written"]
  /\ UNCHANGED <<keyFile, keyOk, cfgOk, cipher, nkeys, last, prev, deleted,
                 data, verdict, web>>

\* Lines 78-81: chmod, and the call returns.  (flag is not recorded for a
\* call made step by step.)
SaveReturn ==
  /\ frame.pc = "written"
  /\ frame' = NoFrame
  /\ prev' = IF prev = NotKept THEN NotKept ELSE Kept(last)
  /\ last' = Call("save_config", frame.inst, frame.config, "ok", NoMap, FALSE,
                  NoMap)
  /\ UNCHANGED <<keyFile, cfgFile, keyOk, cfgOk, cipher, nkeys, deleted, data,
                 verdict, web>>

\* The process dies inside save_config: the files stay as they are, every
\* instance of the process is gone and the next ones start with no cipher.
Crash ==
  /\ frame.pc \notin {"idle", "crashed"}
  /\ cipher' = [i \in Insts |-> 0]
  /\ frame' = [frame EXCEPT !.pc = "crashed", !.at = frame.pc]
  /\ prev' = IF prev = NotKept THEN NotKept ELSE Kept(last)
  /\ last' = Call("crash", frame.inst, frame.config, "ok", NoMap, FALSE, NoMap)
  /\ UNCHANGED <<keyFile, cfgFile, keyOk, cfgOk, nkeys, deleted, data,
                 verdict, web>>

CrashNext ==
  \/ \E i \in Insts : \E config \in Mappings : SaveBegin(i, config)
  \/ KeyWrite
  \/ CfgOpen
  \/ \E n \in 0..Len(KeyOrder) : CfgWritePart(n)
  \/ CfgClose
  \/ SaveReturn
  \/ Crash

\* The calls made between crashes: the ones that write the files, the loads
\* and the restarts.
CrashCalls ==
  \E i \in Insts :
    \/ Construct(i)
    \/ \E config \in Mappings : save_config(i, config)
    \/ load_config(i)
    \/ delete_config(i)

SpecCrash == InitEnv /\ [][CrashCalls \/ CrashNext]_vars

(***************************************************************************)
(* validate_setup_data.  A string is the sequence of its characters; the   *)
(* setup data is a dict from field names to strings.                       *)
(***************************************************************************)
groq == <<"g", "r", "o", "q">>
openai == <<"o", "p", "e", "n", "a", "i">>
sk_prefix == <<"s", "k", "-">>
gsk_prefix == <<"g", "s", "k", "_">>

\* str.startswith(prefix)
startswith(s, prefix) ==
  /\ Len(s) >= Len(prefix)
  /\ SubSeq(s, 1, Len(prefix)) = prefix

\* bool(data.get(field)): the field is there and not the empty string.
truthy(d, field) == field \in DOMAIN d /\ d[field] # <<>>

\* data.get(field) == value
get_eq(d, field, value) == field \in DOMAIN d /\ d[field] = value

Verdict(ok, reason) == [done |-> TRUE, ok |-> ok, reason |-> reason]

\* (the embeddings rule tried before the two provider rules)
validate_setup_data_reordered(d) ==
  IF ~truthy(d, "llm_provider")
  THEN Verdict(FALSE, "LLM provider is required")
  ELSE IF ~truthy(d, "openai_api_key")
  THEN Verdict(FALSE, "OpenAI API key is required for embeddings")
  ELSE IF get_eq(d, "llm_provider", groq) /\ ~truthy(d, "groq_api_key")
  THEN Verdict(FALSE, "Groq API key is required when using Groq")
  ELSE IF get_eq(d, "llm_provider", openai) /\ ~truthy(d, "openai_api_key")
  THEN Verdict(FALSE, "OpenAI API key is required when using OpenAI")
  ELSE IF truthy(d, "openai_api_key")
          /\ ~startswith(d["openai_api_key"], sk_prefix)
  THEN Verdict(FALSE,
         "OpenAI API key format appears invalid (should start with 'sk-')")
  ELSE IF truthy(d, "groq_api_key")
          /\ ~startswith(d["groq_api_key"], gsk_prefix)
  THEN Verdict(FALSE,
         "Groq API key format appears invalid (should start with 'gsk_')")
  ELSE Verdict(TRUE, "None")

\* (the format of groq_api_key never looked at)
validate_setup_data_no_groq_format(d) ==
  IF ~truthy(d, "llm_provider")
  THEN Verdict(FALSE, "LLM provider is required")
  ELSE IF get_eq(d, "llm_provider", groq) /\ ~truthy(d, "groq_api_key")
  THEN Verdict(FALSE, "Groq API key is required when using Groq")
  ELSE IF get_eq(d, "llm_provider", openai) /\ ~truthy(d, "openai_api_key")
  THEN Verdict(FALSE, "OpenAI API key is required when using OpenAI")
  ELSE IF ~truthy(d, "openai_api_key")
  THEN Verdict(FALSE, "OpenAI API key is required for embeddings")
  ELSE IF truthy(d, "openai_api_key")
          /\ ~startswith(d["openai_api_key"], sk_prefix)
  THEN Verdict(FALSE,
         "OpenAI API key format appears invalid (should start with 'sk-')")
  ELSE Verdict(TRUE, "None")

validate_setup_data(d) ==
  IF ~truthy(d, "llm_provider")
  THEN Verdict(FALSE, "LLM provider is required")
  ELSE IF get_eq(d, "llm_provider", groq) /\ ~truthy(d, "groq_api_key")
  THEN Verdict(FALSE, "Groq API key is required when using Groq")
  ELSE IF get_eq(d, "llm_provider", openai) /\ ~truthy(d, "openai_api_key")
  THEN Verdict(FALSE, "OpenAI API key is required when using OpenAI")
  ELSE IF ~truthy(d, "openai_api_key")
  THEN Verdict(FALSE, "OpenAI API key is required for embeddings")
  ELSE IF truthy(d, "openai_api_key")
          /\ ~startswith(d["openai_api_key"], sk_prefix)
  THEN Verdict(FALSE,
         "OpenAI API key format appears invalid (should start with 'sk-')")
  ELSE IF truthy(d, "groq_api_key")
          /\ ~startswith(d["groq_api_key"], gsk_prefix)
  THEN Verdict(FALSE,
         "Groq API key format appears invalid (should start with 'gsk_')")
  ELSE Verdict(TRUE, "None")

\* The setup data tried: each field absent, empty, or one of a few strings
\* (right prefix, wrong prefix, the other key's prefix, shorter than the
\* prefix).
SetupFields == {"llm_provider", "groq_api_key", "openai_api_key"}

SetupVals(field) ==
  IF field = "llm_provider"
  THEN {<<>>, groq, openai, <<"o", "l", "l", "a", "m", "a">>}
  ELSE {<<>>, <<"g", "s", "k", "_", "a">>, <<"s", "k", "-", "v">>,
        <<"b", "a", "d">>, <<"s", "k">>, <<"g", "s", "k">>}

SetupInputs ==
  UNION {{d \in [S -> UNION {SetupVals(f) : f \in SetupFields}] :
            \A f \in S : d[f] \in SetupVals(f)} : S \in SUBSET SetupFields}

InitValidate ==
  /\ InitManager
  /\ prev = NoCall
  /\ data \in SetupInputs
  /\ verdict = NoVerdict

Validate ==
  /\ ~verdict.done
  /\ verdict' = validate_setup_data(data)
  /\ UNCHANGED <<keyFile, cfgFile, keyOk, cfgOk, cipher, nkeys, last, prev,
                 deleted, data, frame, web>>

NextValidate == Validate

SpecValidate == InitValidate /\ [][NextValidate]_vars

(***************************************************************************)
(* app.py: the globals config_manager (instance "A") and agent_app, the    *)
(* POST /setup and POST /reset-config handlers.  A request is what         *)
(* request.get_json() makes of its body.                                   *)
(***************************************************************************)
\* get_json() returned None (a body that is JSON null, or no JSON body).
NoneData == [x \in {"None"} |-> <<>>]

\* get_json() returned a non-empty JSON array: a truthy value with no .get.
ListData == [x \in {"list"} |-> <<>>]

\* The setup data posted: of the setup data above, the ones made of these
\* values (each field absent or present).
PostedVals(field) ==
  IF field = "llm_provider" THEN {groq, openai}
  ELSE IF field = "groq_api_key"
  THEN {<<>>, <<"g", "s", "k", "_", "a">>, <<"b", "a", "d">>}
  ELSE {<<"s", "k", "-", "v">>, <<"b", "a", "d">>}

PostedInputs ==
  {d \in SetupInputs : \A f \in DOMAIN d : d[f] \in PostedVals(f)}

\* object: get_json() returns the dict; null: it returns None; array: it
\* returns the list; malformed: it raises.
Requests ==
  {[kind |-> "object", json |-> d] : d \in PostedInputs}
    \cup {[kind |-> "null", json |-> NoneData],
          [kind |-> "array", json |-> ListData],
          [kind |-> "malformed", json |-> NoneData]}

\* not data
falsy(d) == d = NoneData \/ DOMAIN d = {}

\* The dict handed to save_config as json.dumps sees it: each value a str.
AsConfig(d) == [f \in DOMAIN d |-> StrV(d[f])]

\* _initialize_agent_from_config(): the agent kept when there is one; else,
\* when configured, made from load_config(), and None when load_config() or
\* the agent library (made: whether it does not) raises.
_initialize_agent_from_config(agent, ci, made) ==
  IF agent.live
  THEN [agent_app |-> agent, ci |-> ci]
  ELSE IF ~is_configured
  THEN [agent_app |-> agent, ci |-> ci]
  ELSE LET l == load_config_result(ci) IN
       IF l.kind = "ok" /\ made
       THEN [agent_app |-> [live |-> TRUE, config |-> l.val], ci |-> l.ci]
       ELSE [agent_app |-> NoAgent, ci |-> l.ci]

Answer(agent, status, error, saved) ==
  [agent_app |-> agent, status |-> status, error |-> error, saved |-> saved]

\* (POST /setup saving the data before it validates them)
SetupPost_saving_first(req) ==
  LET s == save_config_result(cipher["A"], AsConfig(req.json))
      v == validate_setup_data(req.json)
  IN
  /\ req.kind = "object" /\ ~falsy(req.json)
  /\ s.nkeys <= MaxKeys
  /\ data' = req.json
  /\ verdict' = v
  /\ keyFile' = s.keyFile
  /\ cfgFile' = s.cfgFile
  /\ nkeys' = s.nkeys
  /\ cipher' = [cipher EXCEPT !["A"] = s.ci]
  /\ web' = IF v.ok
            THEN Answer(web.agent_app, 200, "-", TRUE)
            ELSE Answer(web.agent_app, 400, v.reason, TRUE)
  /\ UNCHANGED <<keyOk, cfgOk, last, prev, deleted, frame>>

\* POST /setup, lines 143-165.
SetupPost(req) ==
  /\ UNCHANGED <<keyOk, cfgOk, last, prev, deleted, frame>>
  /\ IF req.kind = "malformed"
     THEN \* get_json() raised: line 163
          /\ web' = Answer(web.agent_app, 500, "exception", FALSE)
          /\ UNCHANGED <<keyFile, cfgFile, cipher, nkeys, data, verdict>>
     ELSE IF falsy(req.json)
     THEN /\ data' = req.json
          /\ web' = Answer(web.agent_app, 400, "No JSON data provided", FALSE)
          /\ UNCHANGED <<keyFile, cfgFile, cipher, nkeys, verdict>>
     ELSE IF req.kind = "array"
     THEN \* validate_setup_data raised AttributeError at data.get
          /\ data' = req.json
          /\ web' = Answer(web.agent_app, 500, "exception", FALSE)
          /\ UNCHANGED <<keyFile, cfgFile, cipher, nkeys, verdict>>
     ELSE IF ~validate_setup_data(req.json).ok
     THEN /\ data' = req.json
          /\ verdict' = validate_setup_data(req.json)
          /\ web' = Answer(web.agent_app, 400,
                           validate_setup_data(req.json).reason, FALSE)
          /\ UNCHANGED <<keyFile, cfgFile, cipher, nkeys>>
     ELSE LET s == save_config_result(cipher["A"], AsConfig(req.json)) IN
          /\ s.nkeys <= MaxKeys
          /\ data' = req.json
          /\ verdict' = validate_setup_data(req.json)
          /\ keyFile' = s.keyFile
          /\ cfgFile' = s.cfgFile
          /\ nkeys' = s.nkeys
          /\ IF s.kind # "ok"
             THEN /\ cipher' = [cipher EXCEPT !["A"] = s.ci]
                  /\ web' = Answer(web.agent_app, 500, "exception", TRUE)
             ELSE \E ci \in {s.ci}, agent \in {web.agent_app} :
                  \E made \in BOOLEAN :
                    LET r == _initialize_agent_from_config(agent, ci, made)'
                    IN  /\ cipher' = [cipher EXCEPT !["A"] = r.ci]
                        /\ web' = Answer(r.agent_app, 200, "-", TRUE)

\* POST /reset-config, lines 331-340: delete_config(); agent_app stays.
ResetConfig ==
  /\ cfgFile' = NoFile
  /\ keyFile' = 0
  /\ keyOk' = TRUE
  /\ cfgOk' = TRUE
  /\ deleted' = TRUE
  /\ web' = Answer(web.agent_app, 200, "-", FALSE)
  /\ UNCHANGED <<cipher, nkeys, last, prev, frame, data, verdict>>

\* The process is started again: lines 66-68.
Restart ==
  /\ web # NoWeb \/ cipher["A"] # 0
  /\ cipher' = [cipher EXCEPT !["A"] = 0]
  /\ web' = NoWeb
  /\ UNCHANGED <<keyFile, cfgFile, keyOk, cfgOk, nkeys, last, prev, deleted,
                 frame, data, verdict>>

NextWeb ==
  \/ \E req \in Requests : SetupPost(req)
  \/ ResetConfig
  \/ Restart

SpecWeb == Init /\ [][NextWeb]_vars

(***************************************************************************)
(* Properties.                                                             *)
(***************************************************************************)
\* The key load_config would decrypt with on instance i: the cached one, or
\* the one in the key file.
ManagerKey(i) == IF cipher[i] # 0 THEN cipher[i] ELSE keyFile

\* A shallow merge written out key by key: u's value on u's keys, b's on the
\* rest.
MergeRef(b, u) ==
  [k \in {x \in ConfigKeys : x \in DOMAIN b \/ x \in DOMAIN u} |->
     IF k \in DOMAIN u THEN u[k] ELSE b[k]]

\* C1: while no delete_config has been called, a load_config() that follows a
\* save_config(m) on the same instance returns a mapping equal to m, with
\* m's keys and no other (the blob stored before is replaced, not merged).
C1_SaveLoadRoundTrip ==
  (/\ ~deleted
   /\ prev.op = "save_config" /\ prev.kind = "ok"
   /\ last.op = "load_config" /\ last.inst = prev.inst)
  => (/\ last.kind = "ok"
      /\ last.val = prev.arg
      /\ DOMAIN last.val = DOMAIN prev.arg)

\* C1's case: the save replaced a blob that held a key m lacks, and the load
\* after it returned m.
C1_Witness ==
  /\ ~deleted
  /\ prev.op = "save_config" /\ prev.kind = "ok" /\ prev.flag
  /\ last.op = "load_config" /\ last.inst = prev.inst
  /\ last.val = prev.arg

\* C2: whenever save_config(m) has returned, the key file exists,
\* is_configured() is true and load_config() on that instance returns m.
C2_SaveLeavesConfigured ==
  (last.op = "save_config" /\ last.kind = "ok")
  => (/\ keyFile # 0
      /\ is_configured
      /\ load_config_result(cipher[last.inst]).kind = "ok"
      /\ load_config_result(cipher[last.inst]).val = last.arg)

\* C2 without a delete_config before the save: what holds of the code.
C2_SaveLeavesConfiguredNoDelete == ~deleted => C2_SaveLeavesConfigured

\* C3: after delete_config(), from whatever files existed, the call has
\* returned without error, neither file exists, is_configured() is false and
\* load_config() on that instance returns None.
C3_DeleteLeavesNothing ==
  last.op = "delete_config"
  => (/\ last.kind = "ok"
      /\ ~cfgFile.exists
      /\ keyFile = 0
      /\ ~is_configured
      /\ load_config_result(cipher[last.inst]).kind = "none")

\* C3's case: delete_config() called with only the key file present, on an
\* instance that holds a cached cipher.
C3_Witness ==
  /\ last.op = "delete_config"
  /\ last.pre = "key only"
  /\ cipher[last.inst] # 0

\* What C4 says of one step of instance i.
C4_Step(i) ==
  /\ IsConfiguredCall(i)
     => (/\ last'.flag = (cfgFile.exists /\ keyFile # 0)
         /\ (FileState \in {"config only", "key only"} => ~last'.flag)
         /\ UNCHANGED <<keyFile, cfgFile, keyOk, cfgOk, cipher>>)
  /\ (load_config(i) /\ FileState \in {"config only", "key only"})
     => (/\ last'.kind = "none"
         /\ UNCHANGED <<keyFile, cfgFile, keyOk, cfgOk>>)

\* C4: a call of is_configured() returns true exactly when both files exist
\* and changes no file and no cached cipher; with exactly one file present
\* load_config() returns None and changes no file (it creates no key file).
C4_ConfiguredIffBothFiles == [][\A i \in Insts : C4_Step(i)]_vars

\* C4's case: load_config() was called on a fresh instance with the config
\* file alone present; it returned None and there is still no key file.
C4_Witness ==
  /\ last.op = "load_config"
  /\ last.pre = "config only"
  /\ last.kind = "none"
  /\ cipher[last.inst] = 0
  /\ keyFile = 0

\* C5: with both files present and a config file that is no valid token under
\* the manager's key (bytes flipped, truncated, or made under another key),
\* load_config() raises ValueError: it returns neither a mapping nor None.
C5_CorruptedRaises ==
  [][\A i \in Insts :
       (/\ load_config(i)
        /\ FileState = "both"
        /\ ~(cfgFile.mac /\ cfgFile.k = ManagerKey(i)))
       => (last'.kind = "ValueError" /\ last'.val = NoMap)]_vars

\* C5's case: load_config() raised with both files present and readable and
\* a config file that does not verify.
C5_Witness ==
  /\ last.op = "load_config"
  /\ last.kind = "ValueError"
  /\ last.pre = "both"
  /\ keyOk /\ cfgOk
  /\ cfgFile.exists /\ ~cfgFile.mac

\* C6, one call: update_config(u) that returned has stored the merge of the
\* mapping it loaded ({} when load_config() said not configured) with u.
C6_UpdateStoresMerge ==
  (last.op = "update_config" /\ last.kind = "ok")
  => StoredMapping = MergeRef(last.base, last.arg)

\* C6, two calls: update_config(u1) then update_config(u2) on one instance
\* leave stored the initial mapping overlaid by u1, overlaid by u2.
C6_TwoUpdates ==
  (/\ prev.op = "update_config" /\ prev.kind = "ok"
   /\ last.op = "update_config" /\ last.kind = "ok"
   /\ last.inst = prev.inst)
  => StoredMapping = MergeRef(MergeRef(prev.base, prev.arg), last.arg)

\* C6: update_config(u) stores the shallow merge of the loadable mapping with
\* u, and so two updates in a row leave the initial mapping overlaid by u1
\* and then by u2.
C6_UpdateConfigMerges == C6_UpdateStoresMerge /\ C6_TwoUpdates

\* C6's two calls without a delete_config before them: what holds of the code.
C6_TwoUpdatesNoDelete == ~deleted => C6_TwoUpdates

\* C7: after instance A's save_config(m) has returned, a load_config() on
\* another instance with an empty cipher cache reads the key from the key
\* file and returns m.
C7_FreshInstanceLoads ==
  [][\A i \in Insts :
       (/\ last.op = "save_config" /\ last.kind = "ok" /\ last.inst # i
        /\ cipher[i] = 0
        /\ load_config(i))
       => (/\ last'.kind = "ok"
           /\ last'.val = last.arg
           /\ cipher'[i] = keyFile)]_vars

\* C7 without a delete_config before the save: what holds of the code.
C7_FreshInstanceLoadsNoDelete ==
  [][\A i \in Insts :
       (/\ ~deleted
        /\ last.op = "save_config" /\ last.kind = "ok" /\ last.inst # i
        /\ cipher[i] = 0
        /\ load_config(i))
       => (/\ last'.kind = "ok"
           /\ last'.val = last.arg
           /\ cipher'[i] = keyFile)]_vars

\* C10: a load_config() whose read of the key file or of the config file
\* fails for permissions raises the I/O error, not ValueError.
C10_IOErrorDistinct ==
  [][\A i \in Insts :
       (/\ load_config(i)
        /\ FileState = "both"
        /\ ((cipher[i] = 0 /\ ~keyOk) \/ ~cfgOk))
       => last'.kind = "OSError"]_vars

\* The six rules in the order listed: whether rule n fails on d, and the
\* reason it gives.
RuleFails(d, n) ==
  LET has(f) == f \in DOMAIN d /\ Len(d[f]) > 0
      provider == IF "llm_provider" \in DOMAIN d THEN d["llm_provider"] ELSE <<>>
      hasPrefix(f, p) ==
        \A j \in 1..Len(p) : j <= Len(d[f]) /\ d[f][j] = p[j]
  IN  CASE n = 1 -> ~has("llm_provider")
        [] n = 2 -> provider = groq /\ ~has("groq_api_key")
        [] n = 3 -> provider = openai /\ ~has("openai_api_key")
        [] n = 4 -> ~has("openai_api_key")
        [] n = 5 -> has("openai_api_key") /\ ~hasPrefix("openai_api_key", sk_prefix)
        [] n = 6 -> has("groq_api_key") /\ ~hasPrefix("groq_api_key", gsk_prefix)

RuleReason ==
  <<"LLM provider is required",
    "Groq API key is required when using Groq",
    "OpenAI API key is required when using OpenAI",
    "OpenAI API key is required for embeddings",
    "OpenAI API key format appears invalid (should start with 'sk-')",
    "Groq API key format appears invalid (should start with 'gsk_')">>

FirstFailure(d) ==
  LET failing == {n \in 1..6 : RuleFails(d, n)}
  IN  IF failing = {}
      THEN [done |-> TRUE, ok |-> TRUE, reason |-> "None"]
      ELSE LET n == CHOOSE x \in failing : \A y \in failing : x <= y
           IN  [done |-> TRUE, ok |-> FALSE, reason |-> RuleReason[n]]

\* C8: validate_setup_data(data) returns (false, reason) of the first of the
\* six rules, in the listed order, that fails on data, and (true, none) when
\* none fails.
C8_FirstFailingRule == verdict.done => verdict = FirstFailure(data)

\* C8's case: provider groq and neither key given: rule 2 and rule 4 both
\* fail, and the answer is rule 2's.
C8_Witness ==
  /\ verdict.done
  /\ data = [llm_provider |-> groq]
  /\ verdict.reason = "Groq API key is required when using Groq"

\* C9 as stated: accepted data has a non-empty llm_provider, an
\* openai_api_key starting with sk-, a non-empty groq_api_key when the
\* provider is groq, and, whenever a groq_api_key field is present at all
\* (an empty one included), one that starts with gsk_.
C9_AcceptedPresentGroqKey ==
  (verdict.done /\ verdict.ok)
  => (/\ truthy(data, "llm_provider")
      /\ "openai_api_key" \in DOMAIN data
      /\ startswith(data["openai_api_key"], sk_prefix)
      /\ (get_eq(data, "llm_provider", groq) => truthy(data, "groq_api_key"))
      /\ ("groq_api_key" \in DOMAIN data
            => startswith(data["groq_api_key"], gsk_prefix)))

\* C9 as amended: the same, the gsk_ prefix being required of a groq_api_key
\* that is present and non-empty.
C9_AcceptedNonEmptyGroqKey ==
  (verdict.done /\ verdict.ok)
  => (/\ truthy(data, "llm_provider")
      /\ "openai_api_key" \in DOMAIN data
      /\ startswith(data["openai_api_key"], sk_prefix)
      /\ (get_eq(data, "llm_provider", groq) => truthy(data, "groq_api_key"))
      /\ (truthy(data, "groq_api_key")
            => startswith(data["groq_api_key"], gsk_prefix)))

\* C9's case: data accepted with a groq_api_key that is present and empty,
\* under a provider other than groq.
C9_Witness ==
  /\ verdict.done /\ verdict.ok
  /\ "groq_api_key" \in DOMAIN data
  /\ data["groq_api_key"] = <<>>
  /\ ~get_eq(data, "llm_provider", groq)

\* C11: after the process has died at whatever step of save_config(m_new), a
\* load_config() of a fresh instance returns the mapping stored before the
\* call, or m_new, or None, or raises ValueError: never another mapping.
C11_CrashKeepsOldOrNew ==
  (frame.pc = "crashed" /\ last.op = "load_config")
  => \/ last.kind \in {"none", "ValueError"}
     \/ /\ last.kind = "ok"
        /\ last.val = frame.old \/ last.val = frame.config

\* C11's case: the process died after a partial write over a blob that a
\* fresh instance could load, m_new having a key more than the part written,
\* and the load after the crash raised ValueError.
C11_Witness ==
  /\ frame.pc = "crashed" /\ frame.at = "partial"
  /\ frame.old # NoMap
  /\ cfgFile.k # 0
  /\ Len(cfgFile.pt) < Len(json_dumps(frame.config))
  /\ last.op = "load_config" /\ last.kind = "ValueError"

\* C11's other cases: the process died with the key file opened and not yet
\* written; and before the config file was opened, the load after it
\* returning the mapping stored before.
C11_WitnessKeyOpened ==
  /\ frame.pc = "crashed" /\ frame.at = "key opened"
  /\ keyFile = BadKey
  /\ last.op = "load_config"

C11_WitnessOldKept ==
  /\ frame.pc = "crashed" /\ frame.at = "encrypted"
  /\ last.op = "load_config" /\ last.kind = "ok"
  /\ last.val = frame.old /\ last.val # frame.config

\* A request POST /setup does not accept: the body missing or empty, or
\* setup data the validator rejects.
Refused(req) ==
  /\ req.kind \in {"object", "null"}
  /\ falsy(req.json) \/ ~validate_setup_data(req.json).ok

RefusedRequests == {req \in Requests : Refused(req)}

\* What C12 says of one POST /setup, the answer's reason being `reason`.
C12_Step(req, reason) ==
  SetupPost(req)
  => (/\ web'.status = 400
      /\ web'.error = reason
      /\ ~web'.saved
      /\ UNCHANGED <<keyFile, cfgFile>>
      /\ web'.agent_app = web.agent_app)

\* save_config is reached only with data that validate_setup_data accepted.
C12_SavedOnlyAccepted ==
  web.saved => (verdict.ok /\ verdict = validate_setup_data(data))

\* C12 as stated: POST /setup calls save_config only with accepted data, and
\* answers a request whose body is missing or empty or fails a rule with 400
\* and the validator's reason (for no data: the reason it gives for {}),
\* leaving the key file, the config file and agent_app as they were.
C12_RefusedWithValidatorReason ==
  /\ []C12_SavedOnlyAccepted
  /\ [][\A req \in RefusedRequests :
          C12_Step(req,
                   validate_setup_data(IF falsy(req.json) THEN <<>>
                                       ELSE req.json).reason)]_vars

\* C12 as amended: the same, the answer to a missing or empty body being 400
\* with "No JSON data provided", the validator not being called.
C12_RefusedChangesNothing ==
  /\ []C12_SavedOnlyAccepted
  /\ [][\A req \in RefusedRequests :
          C12_Step(req,
                   IF falsy(req.json) THEN "No JSON data provided"
                   ELSE validate_setup_data(req.json).reason)]_vars

\* A request on which get_json() or the validator raises is answered 500 and
\* changes nothing either.
C12_RaisedChangesNothing ==
  [][\A req \in Requests :
       (req.kind \in {"array", "malformed"} /\ SetupPost(req))
       => (/\ web'.status = 500
           /\ ~web'.saved
           /\ UNCHANGED <<keyFile, cfgFile>>
           /\ web'.agent_app = web.agent_app)]_vars

\* C12's case: with both files present and an agent live, setup data that
\* fail a rule were answered 400 with the validator's reason.
C12_Witness ==
  /\ web.status = 400 /\ ~web.saved
  /\ verdict.done /\ ~verdict.ok /\ verdict = validate_setup_data(data)
  /\ web.error = verdict.reason
  /\ web.agent_app.live
  /\ is_configured

\* C12's other case: an empty body answered 400 on a configured installation.
C12_WitnessEmpty ==
  /\ web.status = 400 /\ web.error = "No JSON data provided"
  /\ data = <<>>
  /\ web.agent_app.live
  /\ is_configured

\* C13: whenever both files exist, the config file is a token made under the
\* key in the key file, every instance's cached cipher is of that key, and
\* load_config() on any instance returns the stored mapping and does not
\* raise ValueError.
C13_OneKeyEverywhere ==
  (cfgFile.exists /\ keyFile # 0)
  => (/\ cfgFile.mac /\ cfgFile.k = keyFile
      /\ \A i \in Insts :
           /\ cipher[i] \in {0, keyFile}
           /\ load_config_result(cipher[i]).kind = "ok"
           /\ load_config_result(cipher[i]).val = StoredMapping)

\* C13 without a delete_config in the sequence: what holds of the code.
C13_OneKeyEverywhereNoDelete == ~deleted => C13_OneKeyEverywhere

\* The case in which C13 fails: both files exist, written by one instance
\* after a delete_config, and another instance still holds the cipher of
\* the key that was deleted.
C13_StaleCipher ==
  /\ deleted
  /\ cfgFile.exists /\ keyFile # 0 /\ cfgFile.k = keyFile
  /\ \E i \in Insts :
       /\ cipher[i] \notin {0, keyFile}
       /\ load_config_result(cipher[i]).kind = "ValueError"

=============================================================================
